---- MODULE Spec2Model ----
(***************************************************************************)
(* Model of tennis_bot.py: the forecast window analyzer                    *)
(* (analyze_day_weather) and the booking state kept in state.json          *)
(* (check_for_bookings, friday_reminder).                                  *)
(*                                                                         *)
(* Spec is the program over state.json: any sequence of check_bookings and *)
(* friday runs, each run to completion on what its collaborators return.   *)
(* The wednesday mode neither reads nor writes state.json; its work is the *)
(* two calls of analyze_day_weather, and SpecAnalysis is one such call on  *)
(* any sample list and sunset.  Definitions described as faulty variants   *)
(* are not part of the program: they stand for a slip in the definition    *)
(* that follows them.                                                      *)
(*                                                                         *)
(* Units.  A timestamp is the number of minutes since local midnight of    *)
(* the analysed day, so datetime.fromtimestamp(dt).hour is dt \div 60.     *)
(* A wind speed is an integer number of cm/s; a wind in mph is kept in     *)
(* units of 1/MphUnit mph, so that speed * 2.237 is exact.  A              *)
(* precipitation probability pop is kept in hundredths, so that pop * 100  *)
(* is the integer itself.  Texts are strings, read character by character. *)
(***************************************************************************)
EXTENDS Integers, Sequences, FiniteSets, TLC

VARIABLES day_forecasts, sunset_time, results, pc,
          state, updates, weather_data, today, sent, calls, mode

vars == <<day_forecasts, sunset_time, results, pc,
          state, updates, weather_data, today, sent, calls, mode>>

(***************************************************************************)
(* Configuration                                                           *)
(***************************************************************************)
MAX_WIND_SPEED_MPH == 15
PLAYING_HOURS_START == 9
PLAYING_HOURS_END == 22
HOURS_BEFORE_SUNSET == 1

\* wind_speed_ms * 2.237 on a speed in cm/s: 2237 units of 1/100000 mph
MphPerCms == 2237
MphUnit == 100000

\* rain_prob > 30
RainProbLimit == 30

\* temp_range sentinels
TempLow == 999
TempHigh == -999

MinutesPerHour == 60

(***************************************************************************)
(* Text helpers: str.lower(), the `in` operator on strings, int() and the  *)
(* format specifications :02d and :.0f                                     *)
(***************************************************************************)
UpperCase == "ABCDEFGHIJKLMNOPQRSTUVWXYZ"
LowerCase == "abcdefghijklmnopqrstuvwxyz"
Digits == "0123456789"

CharAt(s, i) == SubSeq(s, i, i)

UpperSet == { CharAt(UpperCase, i) : i \in 1..Len(UpperCase) }
LowerSet == { CharAt(LowerCase, i) : i \in 1..Len(LowerCase) }
DigitSet == { CharAt(Digits, i) : i \in 1..Len(Digits) }

LowerOf ==
    [c \in UpperSet |->
        CharAt(LowerCase, CHOOSE i \in 1..Len(UpperCase) : CharAt(UpperCase, i) = c)]
UpperOf ==
    [c \in LowerSet |->
        CharAt(UpperCase, CHOOSE i \in 1..Len(LowerCase) : CharAt(LowerCase, i) = c)]
ValueOf ==
    [c \in DigitSet |-> (CHOOSE i \in 1..Len(Digits) : CharAt(Digits, i) = c) - 1]

LowerChar(c) == IF c \in UpperSet THEN LowerOf[c] ELSE c
UpperChar(c) == IF c \in LowerSet THEN UpperOf[c] ELSE c

\* str.lower()
RECURSIVE Lower(_)
Lower(s) == IF Len(s) = 0 THEN "" ELSE LowerChar(CharAt(s, 1)) \o Lower(SubSeq(s, 2, Len(s)))

\* sub in s
Contains(s, sub) ==
    \E i \in 1..(Len(s) - Len(sub) + 1) : SubSeq(s, i, i + Len(sub) - 1) = sub

IsDigit(c) == c \in DigitSet
DigitValue(c) == ValueOf[c]

\* int() of a string of digits
RECURSIVE ParseInt(_)
ParseInt(s) ==
    IF Len(s) = 0 THEN 0
    ELSE ParseInt(SubSeq(s, 1, Len(s) - 1)) * 10 + DigitValue(CharAt(s, Len(s)))

\* f"{n:02d}" for n >= 0
Format02d(n) == IF n < 10 THEN "0" \o ToString(n) ELSE ToString(n)

\* f"{x:.0f}" for x >= 0 in units of 1/unit: round half to even
Round0f(x, unit) ==
    LET q == x \div unit
        r == x % unit
    IN  IF 2 * r < unit THEN q
        ELSE IF 2 * r > unit THEN q + 1
        ELSE IF q % 2 = 0 THEN q ELSE q + 1

Min(a, b) == IF a < b THEN a ELSE b
Max(a, b) == IF a > b THEN a ELSE b

(***************************************************************************)
(* analyze_day_weather                                                     *)
(***************************************************************************)
Hour(dt) == (dt \div MinutesPerHour) % 24

InitResults ==
    [playable |-> FALSE, windows |-> <<>>, reasons |-> <<>>,
     temp_range |-> <<TempLow, TempHigh>>, max_wind |-> 0]

CutoffTime(sunset) == sunset - HOURS_BEFORE_SUNSET * MinutesPerHour

WindMph(wind_speed) == wind_speed * MphPerCms

WillRain(forecast) ==
    forecast.pop > RainProbLimit \/ Contains(Lower(forecast.weather_main), "rain")

\* first pass: the fields the loop adds to each forecast
Enrich(forecast) ==
    [dt |-> forecast.dt, main_temp |-> forecast.main_temp,
     wind_speed |-> forecast.wind_speed, pop |-> forecast.pop,
     weather_main |-> forecast.weather_main,
     hour |-> Hour(forecast.dt),
     will_rain |-> WillRain(forecast),
     rain_prob |-> forecast.pop,
     wind_mph |-> WindMph(forecast.wind_speed),
     temp |-> forecast.main_temp]

EnrichAll(forecasts) == [i \in 1..Len(forecasts) |-> Enrich(forecasts[i])]

\* faulty variant: a scope test that forgets the sunset cutoff
OutOfScopeByHourOnly(forecast, cutoff_time) ==
    \/ Hour(forecast.dt) < PLAYING_HOURS_START
    \/ Hour(forecast.dt) >= PLAYING_HOURS_END

\* the `continue` condition of the second pass and of the window scan
OutOfScope(forecast, cutoff_time) ==
    \/ Hour(forecast.dt) < PLAYING_HOURS_START
    \/ Hour(forecast.dt) >= PLAYING_HOURS_END
    \/ forecast.dt > cutoff_time

InSeq(x, seq) == \E i \in 1..Len(seq) : seq[i] = x

WindReason(wind_mph) ==
    "wind speeds up to " \o ToString(Round0f(wind_mph, MphUnit)) \o "mph"

\* lines 111-114
CheckConditions(forecast, reasons) ==
    IF forecast.wind_mph > MAX_WIND_SPEED_MPH * MphUnit
    THEN IF ~InSeq("wind too high", reasons)
         THEN Append(reasons, WindReason(forecast.wind_mph))
         ELSE reasons
    ELSE reasons

\* one iteration of the second pass on an in-scope forecast
TrackStats(forecast, r) ==
    [r EXCEPT !.temp_range = <<Min(r.temp_range[1], forecast.temp),
                               Max(r.temp_range[2], forecast.temp)>>,
              !.max_wind = Max(r.max_wind, forecast.wind_mph),
              !.reasons = CheckConditions(forecast, r.reasons)]

RECURSIVE SecondPass(_, _, _, _)
SecondPass(forecasts, i, cutoff_time, r) ==
    IF i > Len(forecasts) THEN r
    ELSE IF OutOfScope(forecasts[i], cutoff_time)
         THEN SecondPass(forecasts, i + 1, cutoff_time, r)
         ELSE SecondPass(forecasts, i + 1, cutoff_time, TrackStats(forecasts[i], r))

\* faulty variant: a scan of the list as given, without the sort
Unsorted(forecasts) == forecasts

\* sorted(day_forecasts, key=lambda x: x['dt']): a stable sort
RECURSIVE InsertByDt(_, _)
InsertByDt(sorted, forecast) ==
    IF Len(sorted) = 0 THEN <<forecast>>
    ELSE IF sorted[Len(sorted)].dt <= forecast.dt THEN Append(sorted, forecast)
    ELSE Append(InsertByDt(SubSeq(sorted, 1, Len(sorted) - 1), forecast),
                sorted[Len(sorted)])

RECURSIVE SortedForecasts(_)
SortedForecasts(forecasts) ==
    IF Len(forecasts) = 0 THEN <<>>
    ELSE InsertByDt(SortedForecasts(SubSeq(forecasts, 1, Len(forecasts) - 1)),
                    forecasts[Len(forecasts)])

\* current_window = None
NoWindow == [start |-> -1, end |-> -1, temp |-> 0, wind |-> 0]

\* line 129
DryAndCalm(forecast) ==
    ~forecast.will_rain /\ forecast.wind_mph <= MAX_WIND_SPEED_MPH * MphUnit

\* faulty variant: an extension that leaves the end of the open window as it was
ExtendWindowKeepsEnd(forecast, current_window) ==
    IF current_window = NoWindow
    THEN [start |-> Hour(forecast.dt), end |-> Hour(forecast.dt) + 3,
          temp |-> forecast.temp, wind |-> forecast.wind_mph]
    ELSE current_window

\* lines 130-138: open a window or extend the open one
ExtendWindow(forecast, current_window) ==
    IF current_window = NoWindow
    THEN [start |-> Hour(forecast.dt), end |-> Hour(forecast.dt) + 3,
          temp |-> forecast.temp, wind |-> forecast.wind_mph]
    ELSE [current_window EXCEPT !.end = Hour(forecast.dt) + 3]

\* faulty variant: a scan that drops the window still open at its end
FlushNothing(dry_windows, current_window) == dry_windows

\* lines 144-145: the window still open when the scan ends
FlushWindow(dry_windows, current_window) ==
    IF current_window # NoWindow THEN Append(dry_windows, current_window)
    ELSE dry_windows

\* lines 122-145
RECURSIVE FindDryWindows(_, _, _, _, _)
FindDryWindows(sorted, i, cutoff_time, dry_windows, current_window) ==
    IF i > Len(sorted) THEN FlushWindow(dry_windows, current_window)
    ELSE LET forecast == sorted[i] IN
         IF OutOfScope(forecast, cutoff_time)
         THEN FindDryWindows(sorted, i + 1, cutoff_time, dry_windows, current_window)
         ELSE IF DryAndCalm(forecast)
         THEN FindDryWindows(sorted, i + 1, cutoff_time, dry_windows,
                             ExtendWindow(forecast, current_window))
         ELSE IF current_window # NoWindow
         THEN FindDryWindows(sorted, i + 1, cutoff_time,
                             Append(dry_windows, current_window), NoWindow)
         ELSE FindDryWindows(sorted, i + 1, cutoff_time, dry_windows, current_window)

has_morning_rain(forecasts) ==
    \E i \in 1..Len(forecasts) : forecasts[i].will_rain /\ forecasts[i].hour < 12
has_afternoon_rain(forecasts) ==
    \E i \in 1..Len(forecasts) :
        forecasts[i].will_rain /\ 12 <= forecasts[i].hour /\ forecasts[i].hour < 18
has_evening_rain(forecasts) ==
    \E i \in 1..Len(forecasts) : forecasts[i].will_rain /\ forecasts[i].hour >= 18

\* faulty variant: an annotation that counts evening rain as earlier rain
WindowDescAnyRain(window, forecasts) ==
    LET window_desc == Format02d(window.start) \o ":00-" \o Format02d(window.end) \o ":00"
    IN  IF window.start < 12 /\ has_afternoon_rain(forecasts)
        THEN window_desc \o " (before rain)"
        ELSE IF window.start >= 18
                /\ (has_morning_rain(forecasts) \/ has_afternoon_rain(forecasts)
                    \/ has_evening_rain(forecasts))
        THEN window_desc \o " (after rain)"
        ELSE window_desc

\* lines 153-158
WindowDesc(window, forecasts) ==
    LET window_desc == Format02d(window.start) \o ":00-" \o Format02d(window.end) \o ":00"
    IN  IF window.start < 12 /\ has_afternoon_rain(forecasts)
        THEN window_desc \o " (before rain)"
        ELSE IF window.start >= 18
                /\ (has_morning_rain(forecasts) \/ has_afternoon_rain(forecasts))
        THEN window_desc \o " (after rain)"
        ELSE window_desc

\* lines 152-164
AnalyzeWindows(dry_windows, forecasts) ==
    [i \in 1..Len(dry_windows) |->
        [time |-> WindowDesc(dry_windows[i], forecasts),
         temp |-> dry_windows[i].temp,
         wind |-> dry_windows[i].wind]]

\* faulty variant: a verdict that gates on the windows alone
PlayableIfWindows(r) == Len(r.windows) > 0

\* line 166
Playable(r) == Len(r.windows) > 0 /\ r.max_wind <= MAX_WIND_SPEED_MPH * MphUnit

analyze_day_weather(forecasts, sunset) ==
    LET cutoff_time == CutoffTime(sunset)
        enriched == EnrichAll(forecasts)
        stats == SecondPass(enriched, 1, cutoff_time, InitResults)
        dry_windows == FindDryWindows(SortedForecasts(enriched), 1, cutoff_time,
                                      <<>>, NoWindow)
        analysed == [stats EXCEPT !.windows = AnalyzeWindows(dry_windows, enriched)]
    IN  [analysed EXCEPT !.playable = Playable(analysed)]

(***************************************************************************)
(* Inputs of the analyzer: one day's forecast samples and a sunset time    *)
(***************************************************************************)
MaxSamples == 3

\* 06:00, 09:00, 10:00, 11:00, 12:00, 15:00, 18:00, 21:00
SampleTimes == {360, 540, 600, 660, 720, 900, 1080, 1260}

Weather(temp, speed, pop, text) ==
    [main_temp |-> temp, wind_speed |-> speed, pop |-> pop, weather_main |-> text]

\* Three conditions per time slot: a fair one, a windy one and a rainy one.
\* 447 cm/s = 9.999 mph, 358 = 8.008, 670 = 14.988, 671 = 15.010,
\* 894 = 19.999, 1118 = 25.010.
Conditions(t) ==
    CASE t = 360  -> { Weather(5, 447, 0, "Clear"), Weather(4, 894, 0, "Clouds"),
                       Weather(3, 447, 0, "Rain") }
      [] t = 540  -> { Weather(10, 447, 0, "Clear"), Weather(9, 894, 10, "Clouds"),
                       Weather(8, 358, 31, "Clouds") }
      [] t = 600  -> { Weather(11, 670, 30, "Clouds"), Weather(10, 671, 0, "Clear"),
                       Weather(9, 447, 0, "Rain") }
      [] t = 660  -> { Weather(12, 447, 0, "Clear"), Weather(11, 894, 0, "Clear"),
                       Weather(10, 447, 60, "Clouds") }
      [] t = 720  -> { Weather(14, 447, 0, "Clear"), Weather(13, 894, 0, "Clear"),
                       Weather(12, 358, 80, "Rain") }
      [] t = 900  -> { Weather(15, 358, 20, "Clouds"), Weather(14, 1118, 0, "Clear"),
                       Weather(12, 894, 0, "Rain") }
      [] t = 1080 -> { Weather(13, 447, 0, "Clear"), Weather(12, 894, 30, "Clouds"),
                       Weather(11, 447, 40, "Clouds") }
      [] OTHER    -> { Weather(9, 358, 0, "Clear"), Weather(8, 1118, 0, "Clouds"),
                       Weather(8, 447, 0, "Rain") }

Forecast(t, c) ==
    [dt |-> t, main_temp |-> c.main_temp, wind_speed |-> c.wind_speed,
     pop |-> c.pop, weather_main |-> c.weather_main]

Forecasts == UNION { { Forecast(t, c) : c \in Conditions(t) } : t \in SampleTimes }

\* 20:00 and 22:00
SunsetTimes == {1200, 1320}

\* one day's samples: at most one per time slot, in any order
ForecastLists ==
    { l \in UNION { [1..n -> Forecasts] : n \in 0..MaxSamples } :
        \A i, j \in 1..Len(l) : i # j => l[i].dt # l[j].dt }

(***************************************************************************)
(* state.json and the two modes that use it                                *)
(***************************************************************************)
\* "booking": null
None == [day |-> "", time |-> ""]

\* load_state() when state.json does not exist
DefaultState == [booking |-> None]

Outcome(st, messages, called) == [state |-> st, sent |-> messages, calls |-> called]

\* str.capitalize()
Capitalize(s) ==
    IF Len(s) = 0 THEN ""
    ELSE UpperChar(CharAt(s, 1)) \o Lower(SubSeq(s, 2, Len(s)))

\* re.search(r'(\d{1,2}):?(\d{2})?(?:\s*(?:am|pm))?', message): the match that
\* starts at the first digit; group 1 takes two digits when it can, the colon
\* is optional and group 2 needs two digits
TimeMatch(message) ==
    LET n == Len(message)
        digit(i) == i <= n /\ IsDigit(CharAt(message, i))
    IN  IF ~\E i \in 1..n : digit(i)
        THEN [found |-> FALSE, group1 |-> "", group2 |-> ""]
        ELSE LET i == CHOOSE k \in 1..n : digit(k) /\ \A j \in 1..(k - 1) : ~digit(j)
                 j == IF digit(i + 1) THEN i + 2 ELSE i + 1
                 k == IF j <= n /\ CharAt(message, j) = ":" THEN j + 1 ELSE j
             IN  [found |-> TRUE,
                  group1 |-> SubSeq(message, i, j - 1),
                  group2 |-> IF digit(k) /\ digit(k + 1)
                             THEN SubSeq(message, k, k + 1) ELSE ""]

\* line 342
BookedDay(message) ==
    IF Contains(message, "saturday") \/ Contains(message, "sat")
    THEN "saturday" ELSE "sunday"

\* lines 353-359
BookedHour(message, hour) ==
    IF Contains(message, "pm") /\ hour < 12 THEN hour + 12
    ELSE IF Contains(message, "am") /\ hour = 12 THEN 0
    ELSE IF hour < 9 /\ ~Contains(message, "am") /\ ~Contains(message, "pm")
    THEN hour + 12
    ELSE hour

\* lines 349-366
ParseBooking(message, time_match) ==
    LET hour == BookedHour(message, ParseInt(time_match.group1))
        minute == IF time_match.group2 = "" THEN "00" ELSE time_match.group2
    IN  [day |-> BookedDay(message), time |-> Format02d(hour) \o ":" \o minute]

StoppedMessage == "Stopped - no booking this week."

BookedMessage(booking) ==
    "Booked! I'll remind you on Friday about " \o Capitalize(booking.day)
        \o " at " \o booking.time \o "."

\* lines 334-338
StopOutcome(st) ==
    Outcome([st EXCEPT !.booking = None], <<StoppedMessage>>,
            <<"getUpdates", "load_state", "save_state", "send_telegram_message">>)

\* lines 363-370
BookedOutcome(st, booking) ==
    Outcome([st EXCEPT !.booking = booking], <<BookedMessage(booking)>>,
            <<"getUpdates", "load_state", "save_state", "send_telegram_message">>)

\* the loop ran off the end of data['result']
IgnoredOutcome(st) == Outcome(st, <<>>, <<"getUpdates", "load_state">>)

\* lines 328-370
RECURSIVE ProcessUpdates(_, _, _)
ProcessUpdates(result, i, st) ==
    IF i > Len(result) THEN IgnoredOutcome(st)
    ELSE IF ~result[i].has_message THEN ProcessUpdates(result, i + 1, st)
    ELSE LET message == Lower(result[i].text) IN
         IF Contains(message, "stop") THEN StopOutcome(st)
         ELSE IF Contains(message, "booked") /\ TimeMatch(message).found
         THEN BookedOutcome(st, ParseBooking(message, TimeMatch(message)))
         ELSE ProcessUpdates(result, i + 1, st)

\* lines 313-370
check_for_bookings(result, st) ==
    IF Len(result) = 0 THEN Outcome(st, <<>>, <<"getUpdates">>)
    ELSE ProcessUpdates(result, 1, st)

MinutesPerDay == 1440

\* dt.date() of a forecast, in days after today
DateOf(dt) == dt \div MinutesPerDay

\* lines 264-268; weekday() is 0 for Monday
TargetDay(day, weekday) ==
    IF Lower(day) = "saturday" THEN (5 - weekday) % 7 ELSE (6 - weekday) % 7

\* int(time.split(':')[0])
RECURSIVE BeforeColon(_)
BeforeColon(s) ==
    IF Len(s) = 0 \/ CharAt(s, 1) = ":" THEN ""
    ELSE CharAt(s, 1) \o BeforeColon(SubSeq(s, 2, Len(s)))

TargetHour(time) == ParseInt(BeforeColon(time))

Abs(x) == IF x < 0 THEN -x ELSE x

\* lines 274-279
Relevant(forecast, target_day, target_hour) ==
    /\ DateOf(forecast.dt) = target_day
    /\ Abs(Hour(forecast.dt) - target_hour) <= 2

\* min(relevant_forecasts, key=...): the first forecast of the least distance
Closest(relevant, target_hour) ==
    LET dist(i) == Abs(Hour(relevant[i].dt) - target_hour)
        best == CHOOSE i \in 1..Len(relevant) :
                    /\ \A j \in 1..Len(relevant) : dist(i) <= dist(j)
                    /\ \A j \in 1..(i - 1) : dist(j) > dist(i)
    IN  relevant[best]

ErrorMessage == "Error fetching weather update"

FallbackMessage(booking) ==
    "Reminder: You're booked for " \o Capitalize(booking.day) \o " at " \o booking.time
        \o "\n\nCouldn't get detailed forecast for that time."

\* lines 288-305
ReminderMessage(booking, closest) ==
    LET wind_speed_mph == WindMph(closest.wind_speed)
        wind_text == ToString(Round0f(wind_speed_mph, MphUnit))
    IN  "<b>Tennis Reminder - " \o Capitalize(booking.day) \o " at " \o booking.time
        \o "</b>\n\nTemperature: " \o ToString(closest.main_temp)
        \o "C\nWind: " \o wind_text
        \o "mph\nRain chance: " \o ToString(closest.pop) \o "%\n\n"
        \o (IF WillRain(closest) THEN "Rain is likely - might want to cancel!\n"
            ELSE IF wind_speed_mph > MAX_WIND_SPEED_MPH * MphUnit
            THEN "High winds (" \o wind_text \o "mph) - might be tricky!\n"
            ELSE "Conditions look good!\n")
        \o "\nSee you on court!"

\* faulty variant: a reminder run that tells the user there is no booking
NoBookingNotified(st) ==
    Outcome(st, <<"No booking this week.">>, <<"load_state", "send_telegram_message">>)

\* lines 249-251
NoBookingOutcome(st) == Outcome(st, <<>>, <<"load_state">>)

\* lines 259-261
NoListOutcome(st) ==
    Outcome(st, <<ErrorMessage>>,
            <<"load_state", "get_weather_forecast", "send_telegram_message">>)

\* lines 281-283
NoForecastOutcome(st) ==
    Outcome(st, <<FallbackMessage(st.booking)>>,
            <<"load_state", "get_weather_forecast", "send_telegram_message">>)

\* lines 286-311
RemindedOutcome(st, closest) ==
    Outcome([st EXCEPT !.booking = None], <<ReminderMessage(st.booking, closest)>>,
            <<"load_state", "get_weather_forecast", "send_telegram_message",
              "save_state">>)

\* lines 242-311
friday_reminder(st, weather, weekday) ==
    IF st.booking = None THEN NoBookingOutcome(st)
    ELSE IF ~weather.has_list THEN NoListOutcome(st)
    ELSE LET target_day == TargetDay(st.booking.day, weekday)
             target_hour == TargetHour(st.booking.time)
             relevant_forecasts ==
                 SelectSeq(weather.list,
                           LAMBDA f : Relevant(f, target_day, target_hour))
         IN  IF Len(relevant_forecasts) = 0 THEN NoForecastOutcome(st)
             ELSE RemindedOutcome(st, Closest(relevant_forecasts, target_hour))

(***************************************************************************)
(* Inputs of the booking modes: the updates getUpdates returns, the         *)
(* forecast the weather provider returns and the weekday of the run         *)
(***************************************************************************)
MaxUpdates == 1
MaxForecasts == 1

\* a booking reply as the user composes it: the words before the day, the
\* day word, the hour, the minutes ("" when not given) and the meridiem
\* ("" when not given)
Request(prefix, dayword, h, mm, mer) ==
    [prefix |-> prefix, dayword |-> dayword, h |-> h, mm |-> mm, mer |-> mer]

RequestText(q) ==
    q.prefix \o q.dayword \o " at " \o ToString(q.h)
        \o (IF q.mm = "" THEN "" ELSE ":" \o q.mm) \o q.mer

BookingRequests ==
    { Request("Booked for ", "sunday", 15, "00", ""),
      Request("booked for ", "sat", 3, "", "pm"),
      Request("booked for ", "sunday", 3, "", ""),
      Request("Booked for ", "Saturday", 12, "", "am"),
      Request("Booked for ", "Sunday", 12, "30", "pm"),
      Request("Booked for ", "sunday", 10, "", ""),
      Request("Booked for ", "Saturday", 9, "", "am"),
      Request("Booked for ", "saturday", 8, "30", ""),
      Request("Booked a game for ", "Sunday", 3, "", "") }

OtherTexts == { "stop", "Booked!", "Not booked, please stop", "hello" }

Update(text) == [has_message |-> TRUE, text |-> text]

\* an update that carries no 'message' (an edited message, a channel post)
NoMessageUpdate == [has_message |-> FALSE, text |-> ""]

Updates ==
    { Update(RequestText(q)) : q \in BookingRequests }
        \cup { Update(t) : t \in OtherTexts } \cup { NoMessageUpdate }

UpdateLists == UNION { [1..n -> Updates] : n \in 0..MaxUpdates }

\* forecasts one and two days after the run, at 09:00 and 15:00
FridayTimes == { d * MinutesPerDay + h * MinutesPerHour : d \in {1, 2}, h \in {9, 15} }

FridayConditions == { Weather(14, 894, 30, "Clouds"), Weather(12, 358, 80, "Rain") }

FridayForecasts == { Forecast(t, c) : t \in FridayTimes, c \in FridayConditions }

\* a response without 'list' (an error body), or one with a forecast list
WeatherResponses ==
    { [has_list |-> FALSE, list |-> <<>>] }
        \cup { [has_list |-> TRUE, list |-> l] :
                 l \in UNION { [1..n -> FridayForecasts] : n \in 0..MaxForecasts } }

\* Friday and Saturday
Weekdays == {4, 5}

NotFetched == [has_list |-> FALSE, list |-> <<>>]

(***************************************************************************)
(* The program: each run is one mode, run to completion                    *)
(***************************************************************************)
Init ==
    /\ state = DefaultState
    /\ updates = <<>>
    /\ weather_data = NotFetched
    /\ today \in Weekdays
    /\ sent = <<>>
    /\ calls = <<>>
    /\ mode = "none"
    /\ day_forecasts = <<>>
    /\ sunset_time = 0
    /\ results = InitResults
    /\ pc = "idle"

CheckForBookings ==
    \E result \in UpdateLists :
        LET o == check_for_bookings(result, state)
        IN  /\ state' = o.state
            /\ sent' = o.sent
            /\ calls' = o.calls
            /\ updates' = result
            /\ weather_data' = NotFetched
            /\ mode' = "check_bookings"
            /\ UNCHANGED <<today, day_forecasts, sunset_time, results, pc>>

FridayReminder ==
    \E weather \in WeatherResponses, weekday \in Weekdays :
        LET o == friday_reminder(state, weather, weekday)
        IN  /\ state' = o.state
            /\ sent' = o.sent
            /\ calls' = o.calls
            /\ updates' = <<>>
            /\ weather_data' = IF InSeq("get_weather_forecast", o.calls)
                               THEN weather ELSE NotFetched
            /\ today' = weekday
            /\ mode' = "friday"
            /\ UNCHANGED <<day_forecasts, sunset_time, results, pc>>

Next == CheckForBookings \/ FridayReminder

Spec == Init /\ [][Next]_vars

(***************************************************************************)
(* The analyzer on its own: any sample list and sunset, then one call      *)
(***************************************************************************)
InitAnalysis ==
    /\ day_forecasts \in ForecastLists
    /\ sunset_time \in SunsetTimes
    /\ results = InitResults
    /\ pc = "start"
    /\ state = DefaultState
    /\ updates = <<>>
    /\ weather_data = NotFetched
    /\ today = 2
    /\ sent = <<>>
    /\ calls = <<>>
    /\ mode = "wednesday"

\* the call analyze_day_weather(day_forecasts, day_name, sunset_time); the
\* first pass leaves its derived fields in the caller's list
AnalyzeDayWeather ==
    /\ pc = "start"
    /\ results' = analyze_day_weather(day_forecasts, sunset_time)
    /\ day_forecasts' = EnrichAll(day_forecasts)
    /\ pc' = "done"
    /\ UNCHANGED <<sunset_time, state, updates, weather_data, today, sent, calls, mode>>

NextAnalysis == AnalyzeDayWeather

SpecAnalysis == InitAnalysis /\ [][NextAnalysis]_vars

(***************************************************************************)
(* Vocabulary of the properties of the analyzer, stated on the samples     *)
(* and on the returned 'time' texts "HH:00-HH:00[ (...)]"                  *)
(***************************************************************************)
Samples == 1..Len(day_forecasts)

\* hour in [9, 22) and timestamp <= sunset - 1 hour
InScope(i) ==
    LET f == day_forecasts[i]
    IN  /\ 9 <= f.dt \div 60 /\ f.dt \div 60 < 22
        /\ f.dt <= sunset_time - 60

InScopeSamples == { i \in Samples : InScope(i) }

SampleHour(i) == day_forecasts[i].dt \div 60

\* wind in 1/100000 mph; the threshold of 15 mph
SampleWind(i) == day_forecasts[i].wind_speed * 2237
Calm(i) == SampleWind(i) <= 15 * 100000

\* precipitation probability > 30% or 'rain' in the condition text
RainFlag(i) ==
    \/ day_forecasts[i].pop > 30
    \/ Contains(Lower(day_forecasts[i].weather_main), "rain")

Good(i) == Calm(i) /\ ~RainFlag(i)

WindowStart(w) == ParseInt(SubSeq(w.time, 1, 2))
WindowEnd(w) == ParseInt(SubSeq(w.time, 7, 8))
WindowRange(w) == SubSeq(w.time, 1, 11)
WindowRanges(r) == [k \in 1..Len(r.windows) |-> WindowRange(r.windows[k])]

SetMax(S, default) == IF S = {} THEN default ELSE CHOOSE x \in S : \A y \in S : y <= x
SetMin(S, default) == IF S = {} THEN default ELSE CHOOSE x \in S : \A y \in S : x <= y

InScopeMaxWind == SetMax({ SampleWind(i) : i \in InScopeSamples }, 0)

Done == pc = "done"

\* C1: playable iff some window is returned and max_wind, the greatest wind
\* over all in-scope samples, is at most 15 mph; so an in-scope wind above
\* 15 mph makes the day unplayable whatever windows are returned
C1_PlayableIff ==
    Done =>
        /\ results.max_wind = InScopeMaxWind
        /\ results.playable <=>
              (Len(results.windows) > 0 /\ results.max_wind <= 15 * 100000)
        /\ (\E i \in InScopeSamples : ~Calm(i)) => ~results.playable

\* windows were returned and an in-scope wind spike vetoes the day
C1_Witness ==
    /\ Done
    /\ Len(results.windows) >= 1
    /\ \E i \in InScopeSamples : ~Calm(i)
    /\ ~results.playable

\* C2: out-of-scope samples appear in no window and do not affect
\* temp_range or max_wind: every window starts and ends (less the 3-hour
\* bucket) at the hour of an in-scope sample, the aggregates are those of
\* the in-scope samples, and the analysis of the in-scope samples alone
\* returns the same hour ranges, temp_range and max_wind
C2_OutOfScopeIgnored ==
    Done =>
        LET kept == SelectSeq(day_forecasts,
                              LAMBDA f : /\ 9 <= f.dt \div 60 /\ f.dt \div 60 < 22
                                         /\ f.dt <= sunset_time - 60)
            alone == analyze_day_weather(kept, sunset_time)
            temps == { day_forecasts[i].main_temp : i \in InScopeSamples }
        IN  /\ \A k \in 1..Len(results.windows) :
                 /\ \E i \in InScopeSamples :
                       SampleHour(i) = WindowStart(results.windows[k])
                 /\ \E i \in InScopeSamples :
                       SampleHour(i) + 3 = WindowEnd(results.windows[k])
            /\ results.temp_range = <<SetMin(temps, 999), SetMax(temps, -999)>>
            /\ results.max_wind = InScopeMaxWind
            /\ WindowRanges(alone) = WindowRanges(results)
            /\ alone.temp_range = results.temp_range
            /\ alone.max_wind = results.max_wind

\* a good sample before 09:00 and a good sample after the cutoff lie around
\* a returned window, and a windier and warmer sample is out of scope
C2_Witness ==
    /\ Done
    /\ Len(results.windows) >= 1
    /\ \E i \in Samples : SampleHour(i) < 9 /\ Good(i)
    /\ \E i \in Samples : day_forecasts[i].dt > sunset_time - 60 /\ SampleHour(i) < 22
    /\ \E i \in Samples \ InScopeSamples : SampleWind(i) > InScopeMaxWind

\* first and last in-scope hour
FirstHour == SetMin({ SampleHour(i) : i \in InScopeSamples }, 0)
LastHour == SetMax({ SampleHour(i) : i \in InScopeSamples }, 0)

OneFullWindow ==
    /\ Len(results.windows) = 1
    /\ WindowStart(results.windows[1]) = FirstHour
    /\ WindowEnd(results.windows[1]) = LastHour + 3
    /\ results.playable

\* C3 as stated: whenever every in-scope sample is calm and dry, exactly one
\* window spanning the full in-scope hour range is returned and the day is
\* playable
C3_AllGoodOneWindow_AsStated ==
    (Done /\ \A i \in InScopeSamples : Good(i)) => OneFullWindow

\* C3, amended: whenever there is an in-scope sample and every in-scope
\* sample is calm and dry, exactly one window spanning the full in-scope hour
\* range is returned and the day is playable; with no in-scope sample no
\* window is returned and the day is not playable
C3_AllGoodOneWindow ==
    /\ (Done /\ InScopeSamples # {} /\ \A i \in InScopeSamples : Good(i))
          => OneFullWindow
    /\ (Done /\ InScopeSamples = {})
          => (Len(results.windows) = 0 /\ ~results.playable)

\* three good in-scope samples at different hours, merged into one window
C3_Witness ==
    /\ Done
    /\ Cardinality({ SampleHour(i) : i \in InScopeSamples }) >= 3
    /\ \A i \in InScopeSamples : Good(i)
    /\ OneFullWindow

StartsOrdered ==
    \A k \in 1..(Len(results.windows) - 1) :
        WindowStart(results.windows[k]) <= WindowStart(results.windows[k + 1])

NonOverlapping ==
    \A k \in 1..(Len(results.windows) - 1) :
        WindowEnd(results.windows[k]) <= WindowStart(results.windows[k + 1])

\* the in-scope samples lie at least three hours from one another, as the
\* samples of a 3-hourly forecast do
ThreeHourly ==
    \A i, j \in InScopeSamples :
        i # j => (SampleHour(i) - SampleHour(j) >= 3 \/ SampleHour(j) - SampleHour(i) >= 3)

\* C4 as stated: for every input, each window ends at or before the start of
\* the next
C4_Disjoint_AsStated == Done => NonOverlapping

\* C4, amended: for every input the windows are in chronological order of
\* their start hours, and when the in-scope samples are at least three hours
\* apart each window ends at or before the start of the next
C4_OrderedDisjoint ==
    Done => (StartsOrdered /\ (ThreeHourly => NonOverlapping))

\* an input out of chronological order, 3-hourly, that yields two windows
C4_Witness ==
    /\ Done
    /\ ThreeHourly
    /\ Len(results.windows) >= 2
    /\ \E i, j \in InScopeSamples : i < j /\ SampleHour(i) > SampleHour(j)

\* the place of in-scope sample i in chronological order, samples of one
\* timestamp in input order
ChronoRank(i) ==
    Cardinality({ j \in InScopeSamples :
                    \/ day_forecasts[j].dt < day_forecasts[i].dt
                    \/ (day_forecasts[j].dt = day_forecasts[i].dt /\ j <= i) })

Chrono == [k \in 1..Cardinality(InScopeSamples) |->
              CHOOSE i \in InScopeSamples : ChronoRank(i) = k]

\* the maximal runs <<a, b>> of consecutive good samples of Chrono
MaximalRuns ==
    LET n == Len(Chrono)
    IN  { <<a, b>> \in (1..n) \X (1..n) :
            /\ a <= b
            /\ \A k \in a..b : Good(Chrono[k])
            /\ (a = 1 \/ ~Good(Chrono[a - 1]))
            /\ (b = n \/ ~Good(Chrono[b + 1])) }

RunRank(run) == Cardinality({ other \in MaximalRuns : other[1] <= run[1] })

\* the samples of the example: 09:00 wind 10, 12:00 wind 20, 15:00 wind 8,
\* none raining, sunset 20:00
ExampleDay ==
    /\ Len(day_forecasts) = 3
    /\ sunset_time = 1200
    /\ \E i, j, k \in Samples :
          /\ day_forecasts[i].dt = 540 /\ Good(i)
          /\ day_forecasts[j].dt = 720 /\ ~Calm(j) /\ ~RainFlag(j)
          /\ day_forecasts[k].dt = 900 /\ Good(k)

\* C8: whatever the order of the input, the windows are, in order, the
\* maximal runs of consecutive good in-scope samples in chronological order,
\* each spanning from its first sample's hour to its last sample's hour + 3;
\* the example day yields 09:00-12:00 and 15:00-18:00, max_wind 20 and is
\* not playable
C8_WindowsAreMaximalRuns ==
    Done =>
        /\ Len(results.windows) = Cardinality(MaximalRuns)
        /\ \A run \in MaximalRuns :
              LET w == results.windows[RunRank(run)]
              IN  /\ WindowStart(w) = SampleHour(Chrono[run[1]])
                  /\ WindowEnd(w) = SampleHour(Chrono[run[2]]) + 3
        /\ ExampleDay =>
              /\ WindowRanges(results) = <<"09:00-12:00", "15:00-18:00">>
              /\ Round0f(results.max_wind, 100000) = 20
              /\ ~results.playable

\* the example day, given out of chronological order
C8_Witness ==
    /\ Done
    /\ ExampleDay
    /\ day_forecasts[1].dt = 900
    /\ Len(results.windows) = 2

\* the reason text for a wind, rounded to whole mph
PeakReason == "wind speeds up to " \o ToString(Round0f(InScopeMaxWind, 100000)) \o "mph"

\* C9: when an in-scope wind exceeds 15 mph the reasons hold a text with
\* the rounded peak wind, no two reasons are equal, and when no in-scope
\* wind exceeds 15 mph there is no reason
C9_ReasonsPeakDeduplicated ==
    Done =>
        /\ (\E i \in InScopeSamples : ~Calm(i))
              => (\E k \in 1..Len(results.reasons) : results.reasons[k] = PeakReason)
        /\ \A k, l \in 1..Len(results.reasons) :
              k # l => results.reasons[k] # results.reasons[l]
        /\ (\A i \in InScopeSamples : Calm(i)) => results.reasons = <<>>

RainAt(lo, hi) ==
    \E i \in Samples : RainFlag(i) /\ lo <= SampleHour(i) /\ SampleHour(i) < hi

BeforeRain(w) == WindowRange(w) \o " (before rain)"
AfterRain(w) == WindowRange(w) \o " (after rain)"

\* C10 as stated: "(before rain)" on a window that starts before 12:00 when
\* some sample of the afternoon has the rain flag, "(after rain)" on a window
\* that starts at or after 18:00 when some sample earlier than its start has
\* the rain flag, the bare range otherwise
C10_Annotation_AsStated ==
    Done =>
        \A k \in 1..Len(results.windows) :
            LET w == results.windows[k]
            IN  w.time =
                  IF WindowStart(w) < 12 /\ RainAt(12, 18) THEN BeforeRain(w)
                  ELSE IF WindowStart(w) >= 18 /\ RainAt(0, WindowStart(w))
                  THEN AfterRain(w)
                  ELSE WindowRange(w)

\* C10, amended: "(before rain)" on a window that starts before 12:00 when
\* some sample with hour in [12, 18) has the rain flag, "(after rain)" on a
\* window that starts at or after 18:00 when some sample with hour before
\* 18:00 has the rain flag, the bare range otherwise (rain at or after 18:00
\* annotates nothing)
C10_Annotation ==
    Done =>
        \A k \in 1..Len(results.windows) :
            LET w == results.windows[k]
            IN  w.time =
                  IF WindowStart(w) < 12 /\ RainAt(12, 18) THEN BeforeRain(w)
                  ELSE IF WindowStart(w) >= 18 /\ RainAt(0, 18) THEN AfterRain(w)
                  ELSE WindowRange(w)

\* a morning window before afternoon rain and an evening window after it
C10_Witness ==
    /\ Done
    /\ \E k \in 1..Len(results.windows) :
          results.windows[k].time = BeforeRain(results.windows[k])
    /\ \E k \in 1..Len(results.windows) :
          results.windows[k].time = AfterRain(results.windows[k])

(***************************************************************************)
(* Vocabulary of the properties of the booking state, stated on the        *)
(* inputs of the latest run and on what it sent, called and stored         *)
(***************************************************************************)
Called(name) == InSeq(name, calls)

\* the latest run sent a reminder for the booking
ReminderSent == \E k \in 1..Len(sent) : Contains(sent[k], "Reminder")

\* the latest run was check_for_bookings on the single message `text`
Received(text) == mode = "check_bookings" /\ updates = <<Update(text)>>

\* C5: the state holds no booking or one; a parsed booking replaces what
\* was stored; 'stop' clears it; and after a friday_reminder run that sent a
\* reminder for the booking the stored booking is none
C5_BookingLifecycle ==
    /\ state.booking = None \/ state.booking.day \in {"saturday", "sunday"}
    /\ \A q \in BookingRequests :
          Received(RequestText(q)) =>
              /\ state.booking # None
              /\ sent = <<BookedMessage(state.booking)>>
    /\ Received("stop") => state.booking = None
    /\ (mode = "friday" /\ ReminderSent) => state.booking = None

\* the day, hour and minutes a request asks for, by the meridiem rules
RequestedDay(q) ==
    IF Contains(Lower(RequestText(q)), "saturday") \/ Contains(Lower(RequestText(q)), "sat")
    THEN "saturday" ELSE "sunday"

RequestedHour(q) ==
    IF q.mer = "pm" /\ q.h < 12 THEN q.h + 12
    ELSE IF q.mer = "am" /\ q.h = 12 THEN 0
    ELSE IF q.mer = "" /\ q.h < 9 THEN q.h + 12
    ELSE q.h

RequestedTime(q) ==
    (IF RequestedHour(q) < 10 THEN "0" ELSE "") \o ToString(RequestedHour(q))
        \o ":" \o (IF q.mm = "" THEN "00" ELSE q.mm)

\* C6: a message with 'booked' and a time H[:MM] stores the day 'saturday'
\* when the text contains 'saturday' or 'sat' and 'sunday' otherwise, and
\* the time HH:MM with the hour by the meridiem rules (explicit pm and
\* H < 12: H + 12; explicit am and H = 12: 0; no meridiem and H < 9: H + 12;
\* else H) and the minutes '00' when not given; 'stop' clears the booking
C6_BookingParse ==
    /\ \A q \in BookingRequests :
          Received(RequestText(q)) =>
              state.booking = [day |-> RequestedDay(q), time |-> RequestedTime(q)]
    /\ Received("stop") => state.booking = None

HasDigit(text) == \E i \in 1..Len(text) : CharAt(text, i) \in {"0", "1", "2", "3", "4", "5", "6", "7", "8", "9"}

\* a message with 'booked' and no time in it
BookedWithoutTime(u) ==
    u.has_message /\ Contains(Lower(u.text), "booked") /\ ~HasDigit(u.text)

NothingDone == state' = state /\ sent' = <<>> /\ ~Called("save_state")'

\* C7 as stated: friday_reminder with no booking stored calls neither the
\* notifier nor the weather provider nor save_state, and a run that receives
\* only messages with 'booked' and no time writes no state and sends nothing
C7_NoOps_AsStated ==
    [][ /\ (mode' = "friday" /\ state.booking = None)
            => (NothingDone /\ calls' = <<"load_state">>)
        /\ (mode' = "check_bookings" /\ updates' # <<>>
              /\ \A k \in 1..Len(updates') : BookedWithoutTime(updates'[k]))
            => NothingDone ]_vars

\* C7, amended: friday_reminder with no booking stored calls neither the
\* notifier nor the weather provider nor save_state, and a run that receives
\* only messages with 'booked', no time and no 'stop' writes no state and
\* sends nothing ('stop' is looked for first, and clears the booking)
C7_NoOps ==
    [][ /\ (mode' = "friday" /\ state.booking = None)
            => (NothingDone /\ calls' = <<"load_state">>)
        /\ (mode' = "check_bookings" /\ updates' # <<>>
              /\ \A k \in 1..Len(updates') :
                    /\ BookedWithoutTime(updates'[k])
                    /\ ~Contains(Lower(updates'[k].text), "stop"))
            => NothingDone ]_vars

\* a booking is stored and a 'booked' message without a time has left it
C7_Witness ==
    /\ Received("Booked!")
    /\ state.booking # None
    /\ sent = <<>>

====
